---- MODULE Spec2Model ----
(***************************************************************************)
(* Model of backend_folder/main_back.py: the UserCreate field validators   *)
(* and the four routes that forward a request to the Postgres service      *)
(* through handle_postgres_request.                                        *)
(*                                                                         *)
(* Text values are sequences of one-character strings.  A field of the     *)
(* request body is a tagged value: Absent (key missing from the JSON       *)
(* body), None (JSON null), a string or an integer.                        *)
(***************************************************************************)
EXTENDS Integers, Sequences, FiniteSets, TLC

(***************************************************************************)
(* Bounds of the explored inputs.                                          *)
(***************************************************************************)
MaxUserLen == 4
MaxPwLen == 4
MaxNameLen == 4

(***************************************************************************)
(* Program constants.                                                      *)
(***************************************************************************)
UsernameMinLength == 2
UsernameMaxLength == 50
NameMinLength == 2
NameMaxLength == 50
PasswordMinLength == 8
AgeGe == 0
AgeLe == 150
ConnectionErrorStatus == 503
UnexpectedErrorStatus == 500
RouteErrorStatus == 500

(***************************************************************************)
(* Characters.                                                             *)
(***************************************************************************)
UpperSeq == <<"A","B","C","D","E","F","G","H","I","J","K","L","M",
              "N","O","P","Q","R","S","T","U","V","W","X","Y","Z">>
LowerSeq == <<"a","b","c","d","e","f","g","h","i","j","k","l","m",
              "n","o","p","q","r","s","t","u","v","w","x","y","z">>
DigitSeq == <<"0","1","2","3","4","5","6","7","8","9">>

Range(s) == {s[i] : i \in 1..Len(s)}

isupper(c) == c \in Range(UpperSeq)
islower(c) == c \in Range(LowerSeq)
isdigit(c) == c \in Range(DigitSeq)
isalpha(c) == isupper(c) \/ islower(c)
isspace(c) == c \in {" ", "\t"}

\* str.lower() on one character
lower_char(c) ==
  IF isupper(c) THEN LowerSeq[CHOOSE i \in 1..Len(UpperSeq) : UpperSeq[i] = c]
  ELSE c

\* str.lower()
lower(s) == [i \in 1..Len(s) |-> lower_char(s[i])]

\* str.isdigit(): non-empty and every character a digit
str_isdigit(s) == Len(s) > 0 /\ \A i \in 1..Len(s) : isdigit(s[i])

\* str.isalpha(): non-empty and every character a letter
str_isalpha(s) == Len(s) > 0 /\ \A i \in 1..Len(s) : isalpha(s[i])

Rep(c, n) == [i \in 1..n |-> c]

SeqsUpTo(A, n) == UNION {[1..k -> A] : k \in 0..n}

(***************************************************************************)
(* Tagged values of the request body.                                      *)
(***************************************************************************)
Absent == [tag |-> "Absent", v |-> <<>>]
None == [tag |-> "None", v |-> <<>>]
Str(s) == [tag |-> "str", v |-> s]
IntVal(n) == [tag |-> "int", v |-> n]

\* Result of one field validator
Ok(x) == [ok |-> TRUE, v |-> x, err |-> "none", crash |-> FALSE]
\* ValueError raised by a validator, or a constraint of the field failing
Err(e) == [ok |-> FALSE, v |-> None, err |-> e, crash |-> FALSE]
\* an exception that is neither ValueError nor AssertionError
Crash(e) == [ok |-> FALSE, v |-> None, err |-> e, crash |-> TRUE]

(***************************************************************************)
(* validate_username: the regular expression                               *)
(*   ^(?!(\.+_+|_+\.+)$)[A-Za-z0-9._]+$                                    *)
(* followed by the isdigit() test.                                         *)
(***************************************************************************)
UsernameChar(c) == isalpha(c) \/ isdigit(c) \/ c \in {".", "_"}

\* the negative lookahead: one or more of a, then one or more of b, then end
RunThenRun(v, a, b) ==
  \E k \in 1..(Len(v) - 1) :
    /\ \A i \in 1..k : v[i] = a
    /\ \A i \in (k + 1)..Len(v) : v[i] = b

UsernameLookahead(v) == RunThenRun(v, ".", "_") \/ RunThenRun(v, "_", ".")

UsernameRegex(v) ==
  /\ ~UsernameLookahead(v)
  /\ Len(v) >= 1
  /\ \A i \in 1..Len(v) : UsernameChar(v[i])

validate_username(v) ==
  IF ~UsernameRegex(v) THEN Err("username_charset")
  ELSE IF str_isdigit(v) THEN Err("username_all_digits")
  ELSE Ok(Str(v))

(***************************************************************************)
(* validate_name: strip, collapse whitespace runs, letters and spaces only *)
(***************************************************************************)
\* the characters of s at the positions I, in order
Pick(s, I) ==
  [j \in 1..Cardinality(I) |->
     s[CHOOSE i \in I : Cardinality({k \in I : k <= i}) = j]]

\* str.strip()
strip(s) ==
  LET inner == {i \in 1..Len(s) : ~isspace(s[i])}
  IN  IF inner = {} THEN <<>>
      ELSE SubSeq(s, CHOOSE i \in inner : \A j \in inner : i <= j,
                     CHOOSE i \in inner : \A j \in inner : j <= i)

\* re.sub(r"\s+", " ", s): every run of whitespace becomes one space
collapse_ws(s) ==
  LET first == {i \in 1..Len(s) : ~(i > 1 /\ isspace(s[i]) /\ isspace(s[i - 1]))}
      kept == Pick(s, first)
  IN  [j \in 1..Len(kept) |-> IF isspace(kept[j]) THEN " " ELSE kept[j]]

\* str.replace(" ", "")
remove_spaces(s) == Pick(s, {i \in 1..Len(s) : s[i] # " "})

normalize_name(v) == collapse_ws(strip(v))

validate_name(x) ==
  IF x.tag = "None" THEN Ok(None)
  ELSE IF ~str_isalpha(remove_spaces(normalize_name(x.v))) THEN Err("name_letters")
  ELSE Ok(Str(normalize_name(x.v)))

(***************************************************************************)
(* validate_password                                                       *)
(***************************************************************************)
\* the character class compiled at line 82; "\|" is an escaped "|"
special_chars == {"@", "_", "!", "#", "$", "%", "^", "&", "*", "(", ")",
                  "<", ">", "?", "/", "|", "}", "{", "~", ":"}

\* the uppercase test placed before the digit test
validate_password_upper_first(v) ==
  IF Len(v) < PasswordMinLength THEN Err("password_length")
  ELSE IF ~\E i \in 1..Len(v) : isupper(v[i]) THEN Err("password_upper")
  ELSE IF ~\E i \in 1..Len(v) : isdigit(v[i]) THEN Err("password_digit")
  ELSE IF ~\E i \in 1..Len(v) : islower(v[i]) THEN Err("password_lower")
  ELSE IF ~\E i \in 1..Len(v) : v[i] \in special_chars THEN Err("password_special")
  ELSE Ok(Str(v))

validate_password(v) ==
  IF Len(v) < PasswordMinLength THEN Err("password_length")
  ELSE IF ~\E i \in 1..Len(v) : isdigit(v[i]) THEN Err("password_digit")
  ELSE IF ~\E i \in 1..Len(v) : isupper(v[i]) THEN Err("password_upper")
  ELSE IF ~\E i \in 1..Len(v) : islower(v[i]) THEN Err("password_lower")
  ELSE IF ~\E i \in 1..Len(v) : v[i] \in special_chars THEN Err("password_special")
  ELSE Ok(Str(v))

(***************************************************************************)
(* validate_role                                                           *)
(***************************************************************************)
RoleUser == <<"u","s","e","r">>
RoleAdmin == <<"a","d","m","i","n">>
allowed_roles == {RoleUser, RoleAdmin}

validate_role(x) ==
  IF x.tag = "None" THEN Crash("AttributeError")
  ELSE IF lower(x.v) \notin allowed_roles THEN Err("role_not_allowed")
  ELSE Ok(Str(lower(x.v)))

(***************************************************************************)
(* EmailStr: one "@", a non-empty local part, a domain with an inner dot.  *)
(***************************************************************************)
EmailSyntax(v) ==
  \E a \in 2..(Len(v) - 3) :
    /\ v[a] = "@"
    /\ \A i \in 1..Len(v) : (v[i] = "@") => (i = a)
    /\ \A i \in 1..Len(v) : ~isspace(v[i])
    /\ \E d \in (a + 2)..(Len(v) - 1) : v[d] = "."
    /\ v[a + 1] # "." /\ v[Len(v)] # "."

(***************************************************************************)
(* The fields of UserCreate: default, type, Field() constraints, validator *)
(***************************************************************************)
username_field(x) ==
  IF x.tag = "Absent" THEN Ok(None)
  ELSE IF x.tag # "str" THEN Err("string_type")
  ELSE IF Len(x.v) < UsernameMinLength THEN Err("string_too_short")
  ELSE IF Len(x.v) > UsernameMaxLength THEN Err("string_too_long")
  ELSE validate_username(x.v)

password_field(x) ==
  IF x.tag = "Absent" THEN Err("missing")
  ELSE IF x.tag # "str" THEN Err("string_type")
  ELSE validate_password(x.v)

name_field(x) ==
  IF x.tag = "Absent" THEN Ok(None)
  ELSE IF x.tag = "None" THEN validate_name(None)
  ELSE IF x.tag # "str" THEN Err("string_type")
  ELSE IF Len(x.v) < NameMinLength THEN Err("string_too_short")
  ELSE IF Len(x.v) > NameMaxLength THEN Err("string_too_long")
  ELSE validate_name(x)

age_field(x) ==
  IF x.tag = "Absent" \/ x.tag = "None" THEN Ok(None)
  ELSE IF x.tag # "int" THEN Err("int_type")
  ELSE IF x.v < AgeGe THEN Err("greater_than_equal")
  ELSE IF x.v > AgeLe THEN Err("less_than_equal")
  ELSE Ok(x)

email_field(x) ==
  IF x.tag = "Absent" \/ x.tag = "None" THEN Ok(None)
  ELSE IF x.tag # "str" THEN Err("string_type")
  ELSE IF ~EmailSyntax(x.v) THEN Err("value_error")
  ELSE Ok(x)

role_field(x) ==
  IF x.tag = "Absent" THEN Ok(Str(RoleUser))
  ELSE IF x.tag \notin {"str", "None"} THEN Err("string_type")
  ELSE validate_role(x)

FieldNames == {"username", "password", "name", "age", "email", "role"}

FieldResult(raw, f) ==
  CASE f = "username" -> username_field(raw.username)
    [] f = "password" -> password_field(raw.password)
    [] f = "name" -> name_field(raw.name)
    [] f = "age" -> age_field(raw.age)
    [] f = "email" -> email_field(raw.email)
    [] f = "role" -> role_field(raw.role)

\* UserCreate(**body): every field is validated and the errors are collected;
\* an exception that is not a validation error escapes the model
UserCreate(raw) ==
  LET res == [f \in FieldNames |-> FieldResult(raw, f)]
      failed == {f \in FieldNames : ~res[f].ok /\ ~res[f].crash}
  IN  [status |-> IF \E f \in FieldNames : res[f].crash THEN "crash"
                  ELSE IF failed # {} THEN "invalid"
                  ELSE "valid",
       errors |-> {<<f, res[f].err>> : f \in failed},
       model |-> [f \in FieldNames |-> res[f].v]]

(***************************************************************************)
(* Path parameter user_id: int, and its use in the f-string of the URL.    *)
(***************************************************************************)
DigitVal(c) == (CHOOSE i \in 1..Len(DigitSeq) : DigitSeq[i] = c) - 1

RECURSIVE int_of(_)
int_of(s) ==
  IF Len(s) = 0 THEN 0
  ELSE int_of(SubSeq(s, 1, Len(s) - 1)) * 10 + DigitVal(s[Len(s)])

RECURSIVE str_of(_)
str_of(n) ==
  IF n < 10 THEN <<DigitSeq[n + 1]>>
  ELSE str_of(n \div 10) \o <<DigitSeq[(n % 10) + 1]>>

\* user_id: int
user_id_param(s) ==
  IF str_isdigit(s) THEN Ok(IntVal(int_of(s))) ELSE Err("int_parsing")

(***************************************************************************)
(* Bodies of the downstream service: response.json() and JSONResponse.     *)
(***************************************************************************)
\* whitespace between the tokens of a JSON text
remove_ws(s) == Pick(s, {i \in 1..Len(s) : ~isspace(s[i])})

JsonObject == <<"{", "}">>
JsonArray == <<"[", "]">>
JsonNull == <<"n", "u", "l", "l">>

\* response.json(): the decoded value, or JSONDecodeError
json_loads(raw) ==
  LET t == remove_ws(raw)
  IN  IF t = JsonObject THEN [ok |-> TRUE, value |-> "dict"]
      ELSE IF t = JsonArray THEN [ok |-> TRUE, value |-> "list"]
      ELSE IF t = JsonNull THEN [ok |-> TRUE, value |-> "None"]
      ELSE [ok |-> FALSE, value |-> "JSONDecodeError"]

\* JSONResponse(content=value).body
json_dumps(value) ==
  CASE value = "dict" -> JsonObject
    [] value = "list" -> JsonArray
    [] value = "None" -> JsonNull

(***************************************************************************)
(* handle_postgres_request: what one attempt at the downstream call gives. *)
(* A reply is what the awaited client call does: it raises ConnectError    *)
(* (unreachable, refused), a timeout (ConnectTimeout, ReadTimeout), some   *)
(* other exception, or it returns a response.                              *)
(***************************************************************************)
Raised(kind) == [kind |-> kind, status |-> 0, body |-> <<>>]
Response(status, body) == [kind |-> "Response", status |-> status, body |-> body]

\* response.raise_for_status() raises HTTPStatusError
raise_for_status(r) == ~(r.status >= 200 /\ r.status <= 299)

HTTPException(status, shape, type) ==
  [raised |-> TRUE, status |-> status, shape |-> shape, type |-> type]
Returned(r) ==
  [raised |-> FALSE, status |-> r.status, shape |-> "none", type |-> "none"]

\* the HTTPStatusError clause missing: the status falls to the last clause
handle_postgres_request_no_status_clause(r) ==
  IF r.kind = "Response" /\ ~raise_for_status(r) THEN Returned(r)
  ELSE IF r.kind = "ConnectError"
    THEN HTTPException(ConnectionErrorStatus, "detail_object", "connection_error")
  ELSE HTTPException(UnexpectedErrorStatus, "detail_object", "unexpected_error")

handle_postgres_request(r) ==
  IF r.kind = "Response" /\ ~raise_for_status(r) THEN Returned(r)
  ELSE IF r.kind = "ConnectError"
    THEN HTTPException(ConnectionErrorStatus, "detail_object", "connection_error")
  ELSE IF r.kind = "Response"
    THEN HTTPException(r.status, "detail_object", "http_error")
  ELSE HTTPException(UnexpectedErrorStatus, "detail_object", "unexpected_error")

\* the state in which the call ends
CallOutcome(r) ==
  IF handle_postgres_request(r).raised THEN handle_postgres_request(r).type
  ELSE "Success"

\* the call made again after it failed
CallAttemptsRetried(n) == n + 2

\* number of attempts after the single client call of line 105
CallAttempts(n) == n + 1

(***************************************************************************)
(* What a route returns to the caller                                      *)
(***************************************************************************)
Reply(status, shape, type, body) ==
  [status |-> status, shape |-> shape, type |-> type, body |-> body]
NoReply == Reply(0, "none", "none", <<>>)

\* the clause "except HTTPException as he: raise he" missing
RouteResult_no_reraise(r) ==
  LET h == handle_postgres_request(r)
      j == json_loads(r.body)
  IN  IF h.raised THEN Reply(RouteErrorStatus, "detail_string", "none", <<>>)
      ELSE IF j.ok THEN Reply(r.status, "json_body", "none", json_dumps(j.value))
      ELSE Reply(RouteErrorStatus, "detail_string", "none", <<>>)

\* the try/except of a route around handle_postgres_request
RouteResult(r) ==
  LET h == handle_postgres_request(r)
      j == json_loads(r.body)
  IN  IF h.raised THEN Reply(h.status, h.shape, h.type, <<>>)
      ELSE IF j.ok THEN Reply(r.status, "json_body", "none", json_dumps(j.value))
      ELSE Reply(RouteErrorStatus, "detail_string", "none", <<>>)

\* the framework's answer to a body or path parameter that fails validation
RequestValidationError ==
  Reply(422, "detail_list", "none", <<>>)
\* the framework's answer to an exception that escapes a route
ServerError == Reply(500, "plain_text", "none", <<>>)

(***************************************************************************)
(* Inputs                                                                  *)
(***************************************************************************)
UsernameAlphabet == {"a", "1", ".", "_", "-"}
PasswordAlphabet == {"1", "A", "a", "!", "\\", " "}
NameAlphabet == {"a", "B", " ", "\t", "3"}
PadLens == {0, 4, 8}

UsernameInputs ==
  SeqsUpTo(UsernameAlphabet, MaxUserLen)
    \cup {Rep("a", UsernameMaxLength), Rep("a", UsernameMaxLength + 1),
          Rep(".", UsernameMaxLength), <<"Z", "9", ".", "q">>}

PasswordInputs ==
  {p \o Rep(" ", n) : p \in SeqsUpTo(PasswordAlphabet, MaxPwLen), n \in PadLens}
    \cup {<<"a", "b", "c">>,
          <<"A", "b", "c", "1", "2", "3", "4", "5">>,
          <<"A", "b", "c", "d", "1", "2", "3", "!">>,
          <<"A", "b", "c", "d", "1", "2", "3", "\\">>,
          <<"A", "b", "c", "d", "1", "2", "3", "|">>}

NameInputs ==
  SeqsUpTo(NameAlphabet, MaxNameLen)
    \cup {Rep("a", NameMaxLength), Rep("a", NameMaxLength + 1),
          <<" ">> \o Rep("a", NameMaxLength) \o <<" ">>,
          <<" ", " ", "J", "o", "h", "n", " ", " ", " ", "D", "o", "e", " ", " ">>,
          <<"J", "o", "h", "n", "3">>}

AgeInputs == {AgeGe - 1, AgeGe, 30, AgeLe, AgeLe + 1}

EmailInputs == {<<"a", "@", "b", ".", "c">>, <<"a", "b", ".", "c">>,
                <<"a", "@", "b">>, <<"@", "b", ".", "c">>}

RoleInputs == {RoleUser, RoleAdmin, <<"A", "D", "M", "I", "N">>,
               <<"U", "s", "e", "r">>, <<"g", "u", "e", "s", "t">>, <<>>}

ValidPassword == <<"A", "b", "c", "d", "1", "2", "3", "!">>

BaseRecord ==
  [username |-> Str(<<"a", "b">>), password |-> Str(ValidPassword),
   name |-> Absent, age |-> Absent, email |-> Absent, role |-> Absent]

NoBody ==
  [username |-> Absent, password |-> Absent,
   name |-> Absent, age |-> Absent, email |-> Absent, role |-> Absent]

\* bodies mixing good and bad fields
MixedRecords ==
  [username : {Str(<<"a", ".", "b">>), Str(<<"1", "2", "3">>)},
   password : {Str(ValidPassword), Str(<<"a", "b", "c">>)},
   name : {Str(<<"A", "l">>), Str(<<"J", "3">>)},
   age : {IntVal(30), IntVal(AgeLe + 1)},
   email : {Absent, Str(<<"a", "b">>)},
   role : {Str(<<"A", "D", "M", "I", "N">>), Str(<<"g", "u", "e", "s", "t">>)}]

\* bodies with one field explored, and the mixed ones
Records ==
  {[BaseRecord EXCEPT !.username = x] :
      x \in {Str(u) : u \in UsernameInputs} \cup {Absent, None, IntVal(7)}}
  \cup {[BaseRecord EXCEPT !.password = x] :
      x \in {Str(u) : u \in PasswordInputs} \cup {Absent, None}}
  \cup {[BaseRecord EXCEPT !.name = x] :
      x \in {Str(u) : u \in NameInputs} \cup {None}}
  \cup {[BaseRecord EXCEPT !.age = x] :
      x \in {IntVal(n) : n \in AgeInputs} \cup {None}}
  \cup {[BaseRecord EXCEPT !.email = x] :
      x \in {Str(u) : u \in EmailInputs} \cup {None}}
  \cup {[BaseRecord EXCEPT !.role = x] :
      x \in {Str(u) : u \in RoleInputs} \cup {None}}
  \cup MixedRecords

PathIds == {<<"1">>, <<"9", "9", "9">>, <<"0", "7">>, <<"a", "b">>}

Request(op, body, path) == [op |-> op, body |-> body, path |-> path]
NoRequest == Request("none", NoBody, <<>>)

Requests ==
  {Request("add_user", b, <<>>) : b \in Records}
  \cup {Request(op, NoBody, p) : op \in {"get_user", "delete_user"}, p \in PathIds}
  \cup {Request("get_all_users", NoBody, <<>>)}

\* the requests of the fair specification: every route, short texts
CoreRequests ==
  {Request("add_user", b, <<>>) :
      b \in MixedRecords \cup {BaseRecord, [BaseRecord EXCEPT !.username = Absent],
                               [BaseRecord EXCEPT !.role = None]}}
  \cup {Request(op, NoBody, p) : op \in {"get_user", "delete_user"}, p \in PathIds}
  \cup {Request("get_all_users", NoBody, <<>>)}

Statuses == {200, 201, 204, 301, 400, 404, 500, 503}
Bodies == {JsonObject, <<"{", " ", "}">>, JsonArray, JsonNull, <<>>, <<"o", "k">>}

Replies ==
  {Raised(k) : k \in {"ConnectError", "ConnectTimeout", "ReadTimeout", "Exception"}}
  \cup {Response(st, b) : st \in Statuses, b \in Bodies}
NoneYet == Raised("none")

\* a call of the client: method, URL path below POSTGRES_SERVICE_URL, json=
Call(method, url, json) == [method |-> method, url |-> url, json |-> json]
NoCall == Call("none", <<>>, NoBody)

(***************************************************************************)
(* State: one request at a time, from arrival to the answer.               *)
(***************************************************************************)
VARIABLES pc, req, validation, errors, call, attempts, reply, outcome, resp

vars == <<pc, req, validation, errors, call, attempts, reply, outcome, resp>>

Init ==
  /\ pc = "idle"
  /\ req = NoRequest
  /\ validation = "none"
  /\ errors = {}
  /\ call = NoCall
  /\ attempts = 0
  /\ reply = NoneYet
  /\ outcome = "none"
  /\ resp = NoReply

\* a client sends a request of the set S
Arrive(S) ==
  /\ pc = "idle"
  /\ \E r \in S : req' = r
  /\ pc' = "pending"
  /\ UNCHANGED <<validation, errors, call, attempts, reply, outcome, resp>>

ClientRequest == Arrive(Requests)
ClientRequestCore == Arrive(CoreRequests)

\* the request is answered without a call
Reject(v, errs, answer) ==
  /\ validation' = v
  /\ errors' = errs
  /\ resp' = answer
  /\ pc' = "responded"
  /\ UNCHANGED <<req, call, attempts, reply, outcome>>

\* await getattr(client, method)(url, **kwargs): the call is issued
Issue(c) ==
  /\ validation' = "valid"
  /\ errors' = {}
  /\ call' = c
  /\ attempts' = CallAttempts(attempts)
  /\ pc' = "awaiting"
  /\ UNCHANGED <<req, reply, outcome, resp>>

\* the awaited call ends and the route answers
Complete(op) ==
  /\ pc = "awaiting"
  /\ req.op = op
  /\ \E r \in Replies :
       /\ reply' = r
       /\ outcome' = CallOutcome(r)
       /\ resp' = RouteResult(r)
  /\ pc' = "responded"
  /\ UNCHANGED <<req, validation, errors, call, attempts>>

add_user ==
  \/ /\ pc = "pending"
     /\ req.op = "add_user"
     /\ LET user_data == UserCreate(req.body)
        IN  IF user_data.status = "valid"
              THEN Issue(Call("post", <<"add_user">>, user_data.model))
            ELSE IF user_data.status = "invalid"
              THEN Reject("invalid", user_data.errors, RequestValidationError)
            ELSE Reject("crash", {}, ServerError)
  \/ Complete("add_user")

delete_user ==
  \/ /\ pc = "pending"
     /\ req.op = "delete_user"
     /\ LET user_id == user_id_param(req.path)
        IN  IF user_id.ok
              THEN Issue(Call("delete", <<"delete_user">> \o str_of(user_id.v.v), NoBody))
            ELSE Reject("invalid", {<<"user_id", user_id.err>>}, RequestValidationError)
  \/ Complete("delete_user")

get_user ==
  \/ /\ pc = "pending"
     /\ req.op = "get_user"
     /\ LET user_id == user_id_param(req.path)
        IN  IF user_id.ok
              THEN Issue(Call("get", <<"get_user">> \o str_of(user_id.v.v), NoBody))
            ELSE Reject("invalid", {<<"user_id", user_id.err>>}, RequestValidationError)
  \/ Complete("get_user")

get_all_users ==
  \/ /\ pc = "pending"
     /\ req.op = "get_all_users"
     /\ Issue(Call("get", <<"get_all_users">>, NoBody))
  \/ Complete("get_all_users")

\* the answer is sent; the next request can arrive
Respond ==
  /\ pc = "responded"
  /\ pc' = "idle"
  /\ req' = NoRequest
  /\ validation' = "none"
  /\ errors' = {}
  /\ call' = NoCall
  /\ attempts' = 0
  /\ reply' = NoneYet
  /\ outcome' = "none"
  /\ resp' = NoReply

Next ==
  \/ ClientRequest
  \/ add_user
  \/ delete_user
  \/ get_user
  \/ get_all_users
  \/ Respond

Spec == Init /\ [][Next]_vars

\* every route runs to its answer: the call is bounded by timeout=30.0
Routes == add_user \/ delete_user \/ get_user \/ get_all_users

NextCore ==
  \/ ClientRequestCore
  \/ add_user
  \/ delete_user
  \/ get_user
  \/ get_all_users
  \/ Respond

FairSpec == Init /\ [][NextCore]_vars /\ WF_vars(Routes)

(***************************************************************************)
(* Properties                                                              *)
(***************************************************************************)
Answered == pc = "responded"
Validated == pc \in {"awaiting", "responded"}
AddUser == req.op = "add_user"
FieldErrors(f) == {e \in errors : e[1] = f}

\* the field rules as the data model states them
AllowedUsernameChars(v) == \A i \in 1..Len(v) : UsernameChar(v[i])
AllDigits(v) == \A i \in 1..Len(v) : isdigit(v[i])
FillerOnly(v) == \A i \in 1..Len(v) : v[i] \in {".", "_"}
UsernameRule(v) ==
  /\ Len(v) >= UsernameMinLength /\ Len(v) <= UsernameMaxLength
  /\ AllowedUsernameChars(v) /\ ~AllDigits(v) /\ ~FillerOnly(v)

PasswordRules == <<"password_length", "password_digit", "password_upper",
                   "password_lower", "password_special">>
Violates(v, rule) ==
  CASE rule = "password_length" -> Len(v) < PasswordMinLength
    [] rule = "password_digit" -> \A i \in 1..Len(v) : ~isdigit(v[i])
    [] rule = "password_upper" -> \A i \in 1..Len(v) : ~isupper(v[i])
    [] rule = "password_lower" -> \A i \in 1..Len(v) : ~islower(v[i])
    [] rule = "password_special" -> \A i \in 1..Len(v) : v[i] \notin special_chars
ViolatedRules(v) == {k \in 1..Len(PasswordRules) : Violates(v, PasswordRules[k])}
FirstViolated(v) ==
  PasswordRules[CHOOSE k \in ViolatedRules(v) : \A j \in ViolatedRules(v) : k <= j]

LettersAndSingleSpaces(v) ==
  /\ \A i \in 1..Len(v) : isalpha(v[i]) \/ v[i] = " "
  /\ \A i \in 1..(Len(v) - 1) : ~(v[i] = " " /\ v[i + 1] = " ")
  /\ Len(v) > 0 => (v[1] # " " /\ v[Len(v)] # " ")
NameRule(v) ==
  /\ Len(v) >= NameMinLength /\ Len(v) <= NameMaxLength
  /\ LettersAndSingleSpaces(v)

RecordRule(b) ==
  /\ b.username.tag = "str" /\ UsernameRule(b.username.v)
  /\ b.password.tag = "str" /\ ViolatedRules(b.password.v) = {}
  /\ b.name.tag = "str" =>
       (Len(b.name.v) >= NameMinLength /\ Len(b.name.v) <= NameMaxLength
        /\ LettersAndSingleSpaces(normalize_name(b.name.v)))
  /\ b.age.tag = "int" => (b.age.v >= AgeGe /\ b.age.v <= AgeLe)
  /\ b.email.tag = "str" => EmailSyntax(b.email.v)
  /\ b.role.tag = "str" => lower(b.role.v) \in allowed_roles

\* C1: an add_user request whose record violates a field rule is answered
\* with a 4xx validation error and no downstream call is ever issued for it.
C1_InvalidRecordNeverForwarded ==
  (AddUser /\ ~RecordRule(req.body)) =>
    /\ attempts = 0 /\ call.method = "none"
    /\ Answered => (resp.status >= 400 /\ resp.status <= 499)

\* C2: a transport failure of the downstream call (unreachable, refused,
\* timeout) is answered with 503 and type connection_error on every route.
C2_TransportFailureIs503 ==
  (Answered /\ reply.kind \in {"ConnectError", "ConnectTimeout", "ReadTimeout"}) =>
    (resp.status = 503 /\ resp.type = "connection_error")

\* C3: a downstream answer with a non-2xx status s is answered with exactly
\* status s and type http_error on every route, never 500 or 503 of the
\* gateway's own and never another kind.
C3_HttpErrorKeepsStatus ==
  (Answered /\ reply.kind = "Response" /\ ~(reply.status \in 200..299)) =>
    /\ resp.status = reply.status
    /\ resp.type = "http_error"
    /\ resp.shape = "detail_object"
    /\ outcome = "http_error"

C3_Witness ==
  /\ Answered /\ req.op = "get_user" /\ req.path = <<"9", "9", "9">>
  /\ reply.kind = "Response" /\ reply.status = 404
  /\ resp.status = 404 /\ resp.type = "http_error"

TerminalOutcomes == {"Success", "connection_error", "http_error", "unexpected_error"}

\* C4: a request that passed validation makes exactly one downstream call
\* attempt, never a second one whatever the outcome, and eventually ends in
\* exactly one of the four terminal outcomes.
OneAttempt ==
  /\ attempts <= 1
  /\ pc = "awaiting" => (attempts = 1 /\ validation = "valid")
  /\ (Answered /\ validation = "valid") =>
       (attempts = 1 /\ outcome \in TerminalOutcomes)
Ended == Answered /\ attempts = 1 /\ outcome \in TerminalOutcomes

C4_ExactlyOneAttempt == []OneAttempt /\ ((pc = "awaiting") ~> Ended)

C4_Witness ==
  /\ Answered /\ AddUser /\ reply.kind = "ConnectError"
  /\ outcome = "connection_error" /\ attempts = 1 /\ resp.status = 503

\* C5: a downstream 2xx answer reaches the caller with its status and its
\* body unchanged, whatever the body, and never as an error.
C5_SuccessPassedThrough ==
  (Answered /\ reply.kind = "Response" /\ reply.status \in 200..299) =>
    /\ resp.status = reply.status
    /\ resp.body = reply.body
    /\ resp.shape = "json_body"

ErrorTypes == {"connection_error", "http_error", "unexpected_error", "validation_error"}

C8_UsernameAcceptedIffRule ==
  (AddUser /\ Validated /\ validation # "crash" /\ req.body.username.tag = "str"
     /\ Len(req.body.username.v) >= UsernameMinLength
     /\ Len(req.body.username.v) <= UsernameMaxLength) =>
    ((FieldErrors("username") = {}) <=> UsernameRule(req.body.username.v))

\* C9: every record add_user sends downstream carries a username that is a
\* string of 2 to 50 characters satisfying the username rules.
C9_ForwardedUsernamePresent ==
  (call.method = "post") =>
    (call.json.username.tag = "str" /\ UsernameRule(call.json.username.v))

\* C10: the name of an accepted record is the whitespace-normalized input,
\* only letters and single spaces, 2 to 50 characters long, and validating
\* it again returns it unchanged; an absent name stays absent.
C10_NormalizedName ==
  (call.method = "post") =>
    IF req.body.name.tag = "str"
      THEN /\ call.json.name = Str(normalize_name(req.body.name.v))
           /\ NameRule(call.json.name.v)
           /\ name_field(call.json.name) = Ok(call.json.name)
      ELSE call.json.name.tag = "None"

====
